---- MODULE Spec2Model ----
(***************************************************************************)
(* alertmanager-webhook-rocketchat: main.go.                               *)
(*                                                                         *)
(* main() loads the configuration, builds the RocketChat client, tries a   *)
(* first authentication and starts serving.  Every POST /webhook runs the  *)
(* handler webhook() in its own goroutine: it decodes the body,            *)
(* authenticates the shared client, sends the notification when the        *)
(* authentication returned no error, and answers with a JSONResponse.      *)
(* The handlers of concurrent requests interleave at their calls to the    *)
(* chat backend; the steps between two such calls are local to a request.  *)
(***************************************************************************)
EXTENDS Integers, Sequences, FiniteSets, TLC

\* ------------------------------------------------------------------ bounds
NumRequests == 2     \* requests in flight
MaxFail == 2         \* a backend rejects at most this many sends of a request
MaxBodyLen == 2      \* tokens of a request body
MaxMissing == 1      \* fields a configuration file may lack

\* --------------------------------------------------------- program constants
StatusOK == 200
StatusBadRequest == 400

Requests == 1..NumRequests

\* The fields of Config the chat client needs.
Fields == {"id", "email", "password", "host", "scheme"}

\* A configuration file: whether ioutil.ReadFile can read it, whether it is
\* well-formed YAML, and the fields it sets.
ConfigFiles ==
    [readable : BOOLEAN, wellFormed : BOOLEAN,
     present : {p \in SUBSET Fields : Cardinality(Fields \ p) <= MaxMissing}]

\* Session tokens: NoToken before any login, one token per caller of
\* AuthenticateRocketChatClient (a request, or main).
NoToken == 0
MainToken == NumRequests + 1
TokenOf(r) == r

\* Request bodies, as the sequence of what the JSON decoder meets:
\*   "obj"   a complete JSON object (what template.Data unmarshals from)
\*   "str"   a complete JSON value of another type
\*   "junk"  bytes that are no JSON
\*   "ioerr" the point where reading the body fails
BodyTokens == {"obj", "str", "junk", "ioerr"}
Bodies == UNION {[1..n -> BodyTokens] : n \in 0..MaxBodyLen}

ErrEOF == "EOF"
ErrSyntax == "invalid character"
ErrType == "json: cannot unmarshal into Go value of type template.Data"
ErrRead == "read error"
ErrAuth == "authentication failed"

\* json.NewDecoder(r.Body).Decode(&data): decodes the FIRST value of the
\* stream and leaves what follows unread; an empty stream is io.EOF.
readRequestBody(body) ==
    IF Len(body) = 0 THEN [ok |-> FALSE, err |-> ErrEOF]
    ELSE CASE body[1] = "obj"   -> [ok |-> TRUE,  err |-> ""]
           [] body[1] = "str"   -> [ok |-> FALSE, err |-> ErrType]
           [] body[1] = "junk"  -> [ok |-> FALSE, err |-> ErrSyntax]
           [] body[1] = "ioerr" -> [ok |-> FALSE, err |-> ErrRead]

\* What readRequestBody returns over all request bodies.
DecodeResults == {readRequestBody(body) : body \in Bodies}

sendJSONResponse_NoHeader(status, message) ==
    [code |-> StatusOK, body |-> [Status |-> status, Message |-> message]]

\* sendJSONResponse: w.WriteHeader(status), then the marshalled JSONResponse.
\* json.Marshal of a struct of an int and a string cannot fail.
sendJSONResponse(status, message) ==
    [code |-> status, body |-> [Status |-> status, Message |-> message]]

\* Without the second log.Fatalf: yaml.Unmarshal keeps the fields it decoded.
loadConfig_IgnoreYAMLError(f) ==
    [fatal |-> ~f.readable,
     config |-> f.present]

\* loadConfig: log.Fatalf when the file cannot be read or is no YAML; no
\* field of the parsed Config is looked at.
loadConfig(f) ==
    [fatal |-> ~f.readable \/ ~f.wellFormed,
     config |-> f.present]

VARIABLES
    file,       \* the configuration file main() is started with
    errClient,  \* main(): whether GetRocketChatClient returned an error
    phase,      \* main(): "start", "fatal" (log.Fatalf) or "serving"
    config,     \* the global config: the fields that are set
    session,    \* the token held by the global rocketChatClient
    issued,     \* tokens written to the session by completed logins
    pc,         \* per request: "idle", "decode", "auth", "authwait", "send", "done"
    errDecode,  \* per request: err of readRequestBody ("" is nil)
    failN,      \* per request: the backend rejects its first failN sends
    pending,    \* per request: the answer of the login in flight
    calls,      \* per request: the chat-client calls that returned, in order
    resp        \* per request: the responses written, in order

vars == <<file, errClient, phase, config, session, issued, pc, errDecode, failN, pending, calls, resp>>
reqVars == <<pc, errDecode, failN, pending, calls, resp>>

AuthEvent(ok, tok) == [op |-> "auth", ok |-> ok, tok |-> tok]
SendEvent(ok, tok) == [op |-> "send", ok |-> ok, tok |-> tok]

Sends(r) == SelectSeq(calls[r], LAMBDA e : e.op = "send")
Auths(r) == SelectSeq(calls[r], LAMBDA e : e.op = "auth")

\* AuthenticateRocketChatClient(client, config) logs in with the credentials
\* of config at the endpoint of config: the backend can accept the login only
\* when all of them are set (and may reject it even then).
CanLogin(cfg) == cfg = Fields

\* GetRocketChatClient(config) builds the client for the endpoint of config:
\* there is no client without host or scheme, and building it may fail even
\* with both (built says whether it would succeed).
GetRocketChatClient(cfg, built) == built /\ {"host", "scheme"} \subseteq cfg

Init ==
    /\ file \in ConfigFiles
    /\ errClient = FALSE
    /\ phase = "start"
    /\ config = {}
    /\ session = NoToken
    /\ issued = {}
    /\ pc = [r \in Requests |-> "idle"]
    /\ errDecode = [r \in Requests |-> ""]
    /\ failN = [r \in Requests |-> 0]
    /\ pending = [r \in Requests |-> NoToken]
    /\ calls = [r \in Requests |-> <<>>]
    /\ resp = [r \in Requests |-> <<>>]

\* main(): loadConfig, GetRocketChatClient (fatal on error), a first
\* AuthenticateRocketChatClient (its error is only logged), ListenAndServe.
Main(clientOK, authOK) ==
    /\ phase = "start"
    /\ LET loaded == loadConfig(file) IN
       IF loaded.fatal
       THEN /\ phase' = "fatal"
            /\ UNCHANGED <<config, session, issued, errClient>>
       ELSE /\ config' = loaded.config
            /\ errClient' = ~GetRocketChatClient(loaded.config, clientOK)
            /\ IF ~GetRocketChatClient(loaded.config, clientOK)
               THEN /\ phase' = "fatal"
                    /\ UNCHANGED <<session, issued>>
               ELSE /\ phase' = "serving"
                    /\ IF authOK /\ CanLogin(loaded.config)
                       THEN /\ session' = MainToken
                            /\ issued' = issued \cup {MainToken}
                       ELSE UNCHANGED <<session, issued>>
    /\ UNCHANGED <<file, reqVars>>

\* The server hands a request to webhook().
Receive(r) ==
    /\ phase = "serving"
    /\ pc[r] = "idle"
    /\ pc' = [pc EXCEPT ![r] = "decode"]
    /\ UNCHANGED <<file, errClient, phase, config, session, issued, errDecode, failN, pending, calls, resp>>

AfterDecode_NoReturn(err) == "auth"

\* webhook: `if err != nil { sendJSONResponse(...); return }`.
AfterDecode(err) == IF err # "" THEN "done" ELSE "auth"

\* webhook: readRequestBody and the answer to a body that does not decode.
\* res is what readRequestBody returns for the body that was sent.
WebhookDecode(r, res, n) ==
    /\ pc[r] = "decode"
    /\ res \in DecodeResults
    /\ errDecode' = [errDecode EXCEPT ![r] = res.err]
    /\ resp' = [resp EXCEPT ![r] =
                  IF res.err # ""
                  THEN Append(@, sendJSONResponse(StatusBadRequest, res.err))
                  ELSE @]
    /\ pc' = [pc EXCEPT ![r] = AfterDecode(res.err)]
    /\ failN' = [failN EXCEPT ![r] = IF res.err # "" THEN 0 ELSE n]
    /\ UNCHANGED <<file, errClient, phase, config, session, issued, pending, calls>>

\* AuthenticateRocketChatClient, first half: the login request reaches the
\* backend, which accepts (a fresh token) or rejects it.
WebhookAuthCall(r, ok) ==
    /\ pc[r] = "auth"
    /\ ok => CanLogin(config)
    /\ pending' = [pending EXCEPT ![r] = IF ok THEN TokenOf(r) ELSE NoToken]
    /\ pc' = [pc EXCEPT ![r] = "authwait"]
    /\ UNCHANGED <<file, errClient, phase, config, session, issued, errDecode, failN, calls, resp>>

ShouldSend_Always(errAuthentication) == TRUE

\* webhook: `if errAuthentication != nil { log } else { SendNotification }`.
ShouldSend(errAuthentication) == errAuthentication = ""

FinalResponse_Created == sendJSONResponse(201, "Success")

\* webhook: sendJSONResponse(w, http.StatusOK, "Success").
FinalResponse == sendJSONResponse(StatusOK, "Success")

\* AuthenticateRocketChatClient, second half: the answer arrives; an accepted
\* login replaces the token of the shared session.  Then webhook's branch on
\* errAuthentication; without a send the handler answers at once.
WebhookAuthReturn(r) ==
    /\ pc[r] = "authwait"
    /\ LET ok == pending[r] # NoToken
           errAuthentication == IF ok THEN "" ELSE ErrAuth
       IN
       /\ IF ok
          THEN /\ session' = pending[r]
               /\ issued' = issued \cup {pending[r]}
          ELSE UNCHANGED <<session, issued>>
       /\ calls' = [calls EXCEPT ![r] = Append(@, AuthEvent(ok, pending[r]))]
       /\ IF ShouldSend(errAuthentication)
          THEN /\ pc' = [pc EXCEPT ![r] = "send"]
               /\ resp' = resp
          ELSE /\ pc' = [pc EXCEPT ![r] = "done"]
               /\ resp' = [resp EXCEPT ![r] = Append(@, FinalResponse)]
    /\ pending' = [pending EXCEPT ![r] = NoToken]
    /\ UNCHANGED <<file, errClient, phase, config, errDecode, failN>>

AfterSend_Retry(ok, attempts) == IF ~ok /\ attempts < 2 THEN "auth" ELSE "done"

\* webhook: SendNotification is called once and its outcome is not looked at.
AfterSend(ok, attempts) == "done"

\* SendNotification with the session's current token, then the answer.
WebhookSend(r) ==
    /\ pc[r] = "send"
    /\ LET attempts == Len(Sends(r)) + 1
           ok == attempts > failN[r]
           next == AfterSend(ok, attempts)
       IN
       /\ calls' = [calls EXCEPT ![r] = Append(@, SendEvent(ok, session))]
       /\ pc' = [pc EXCEPT ![r] = next]
       /\ resp' = [resp EXCEPT ![r] =
                     IF next = "done" THEN Append(@, FinalResponse) ELSE @]
    /\ UNCHANGED <<file, errClient, phase, config, session, issued, errDecode, failN, pending>>

Next ==
    \/ \E clientOK \in BOOLEAN, authOK \in BOOLEAN : Main(clientOK, authOK)
    \/ \E r \in Requests : Receive(r)
    \/ \E r \in Requests, res \in DecodeResults, n \in 0..MaxFail : WebhookDecode(r, res, n)
    \/ \E r \in Requests, ok \in BOOLEAN : WebhookAuthCall(r, ok)
    \/ \E r \in Requests : WebhookAuthReturn(r)
    \/ \E r \in Requests : WebhookSend(r)

Spec == Init /\ [][Next]_vars

\* Every call of the handler returns: a handler that was entered keeps running.
HandlerStep(r) ==
    \/ \E res \in DecodeResults, n \in 0..MaxFail : WebhookDecode(r, res, n)
    \/ \E ok \in BOOLEAN : WebhookAuthCall(r, ok)
    \/ WebhookAuthReturn(r)
    \/ WebhookSend(r)

FairSpec == Spec /\ \A r \in Requests : WF_vars(HandlerStep(r))

\* ------------------------------------------------------------------ claims

Done(r) == pc[r] = "done"
\* The body of request r was read and decoded without error.
Decoded(r) == pc[r] \notin {"idle", "decode"} /\ errDecode[r] = ""
DecodeFailed(r) == errDecode[r] # ""
\* The one authenticate call of request r returned no error.
Authenticated(r) == Len(Auths(r)) >= 1 /\ \A i \in 1..Len(Auths(r)) : Auths(r)[i].ok

\* C1: a request whose body does not decode is answered 400 with the decode
\* error as the message, and no chat-client call (so no send) is made for it.
C1_DecodeErrorIs400NoSend ==
    \A r \in Requests :
        DecodeFailed(r) =>
            /\ errDecode[r] \in {ErrEOF, ErrSyntax, ErrType, ErrRead}
            /\ resp[r] = <<[code |-> 400,
                            body |-> [Status |-> 400, Message |-> errDecode[r]]]>>
            /\ Sends(r) = <<>>
            /\ calls[r] = <<>>
            /\ Done(r)

C1_Witness ==
    \E r \in Requests :
        /\ Done(r) /\ errDecode[r] = ErrSyntax
        /\ Len(resp[r]) = 1 /\ resp[r][1].code = 400

\* C2: a decoded request for which no send succeeded (the login was rejected,
\* or the send failed) is answered 401, with the authentication error as the
\* message when the login was rejected.
C2_FailureIs401 ==
    \A r \in Requests :
        (Done(r) /\ Decoded(r) /\ \A i \in 1..Len(Sends(r)) : ~Sends(r)[i].ok) =>
            /\ Len(resp[r]) = 1
            /\ resp[r][1].code = 401
            /\ resp[r][1].body.Status = 401
            /\ ~Authenticated(r) => resp[r][1].body.Message = ErrAuth

\* C3: when the first send of a decoded request succeeds, that send is the
\* only one of the request and the answer is 200 "Success".
C3_FirstSendOkOneSend200 ==
    \A r \in Requests :
        (Decoded(r) /\ Len(Sends(r)) >= 1 /\ Sends(r)[1].ok) =>
            /\ Len(Sends(r)) = 1
            /\ Done(r)
            /\ resp[r] = <<[code |-> 200,
                            body |-> [Status |-> 200, Message |-> "Success"]]>>

C3_Witness ==
    \E r \in Requests :
        /\ Done(r) /\ Decoded(r) /\ failN[r] = 0
        /\ Len(Sends(r)) = 1 /\ Sends(r)[1].ok

C6_RetryController ==
    \E B \in 0..MaxFail :
        \A r \in Requests :
            (Done(r) /\ Decoded(r) /\ Authenticated(r)) =>
                IF B >= failN[r]
                THEN /\ Len(Sends(r)) = failN[r] + 1
                     /\ Sends(r)[Len(Sends(r))].ok
                     /\ resp[r][Len(resp[r])].code = 200
                ELSE /\ Len(Sends(r)) = B + 1
                     /\ resp[r][Len(resp[r])].code # 200

C8_MissingFieldIsFatal ==
    /\ phase = "serving" => file.present = Fields
    /\ file.present # Fields => \A r \in Requests : pc[r] = "idle"

\* C8 amended: main never serves, and no request is handled, when the
\* configuration file cannot be read or is no YAML, or the chat client cannot
\* be built; a file that parses is loaded with whatever fields it sets.
C8_UnusableConfigIsFatal ==
    /\ phase = "serving" =>
          /\ file.readable /\ file.wellFormed /\ ~errClient
          /\ config = file.present
    /\ (~file.readable \/ ~file.wellFormed \/ errClient) =>
          /\ phase \in {"start", "fatal"}
          /\ \A r \in Requests : pc[r] = "idle"

C8_Witness ==
    /\ phase = "fatal" /\ file.readable /\ ~file.wellFormed
    /\ \A r \in Requests : pc[r] = "idle"

\* C9: a request writes at most one response, has written exactly one when its
\* handler has ended, and every handler that was entered ends.
C9_EveryRequestAnswered ==
    /\ [](\A r \in Requests :
             /\ Len(resp[r]) <= 1
             /\ Done(r) <=> Len(resp[r]) = 1
             /\ Len(resp[r]) = 1 => resp[r][1].code \in {200, 400})
    /\ \A r \in Requests : (pc[r] = "decode") ~> Done(r)

C9_Witness ==
    \E r1, r2 \in Requests :
        /\ Done(r1) /\ DecodeFailed(r1) /\ Len(resp[r1]) = 1
        /\ Done(r2) /\ Decoded(r2) /\ Len(resp[r2]) = 1

\* C10: a decoded request makes its chat-client calls in this order: one
\* authenticate call, then at most one send, and a send only after an
\* authenticate call that returned no error; when the handler has ended the
\* authenticate call was made, and the send was made exactly when it succeeded.
C10_AuthOnceThenSendIfOk ==
    \A r \in Requests :
        /\ Len(Auths(r)) <= 1 /\ Len(Sends(r)) <= 1
        /\ Len(calls[r]) >= 1 => calls[r][1].op = "auth"
        /\ Len(Sends(r)) = 1 => calls[r][1].ok
        /\ (Done(r) /\ Decoded(r)) =>
              /\ Len(Auths(r)) = 1
              /\ Len(Sends(r)) = 1 <=> calls[r][1].ok

C10_Witness ==
    \E r1, r2 \in Requests :
        /\ Done(r1) /\ calls[r1] = <<AuthEvent(FALSE, NoToken)>>
        /\ Done(r2) /\ Len(calls[r2]) = 2 /\ calls[r2][1].ok /\ calls[r2][2].op = "send"

====
